---- MODULE Spec2Model ----
(***************************************************************************)
(* Session-based authentication core of paquetes.auth:                     *)
(*   auth/sessions.py      session manager (create / validate / delete)    *)
(*   auth/storage_json.py  JSON file store                                 *)
(*   auth/storage_mssql.py SQL Server store                                *)
(*   auth/middleware.py    scope check of require_auth / SessionDependency *)
(* Time is an integer clock; a datetime is the tick it was read at.        *)
(***************************************************************************)
EXTENDS Integers, Sequences, FiniteSets, TLC

\* ------------------------------------------------------------------ bounds
MaxTime == 4        \* last tick of the clock, one caller
MaxTimeConc == 2    \* last tick of the clock, two callers
MaxCalls == 3       \* calls issued
MaxIds == 3         \* uuid4 values handed out
MaxQuota == 2       \* largest MaxSessions value in the user table
Ttl == 3            \* JWT_EXPIRATION_MINUTES in ticks, one caller
TtlConc == 1        \* JWT_EXPIRATION_MINUTES in ticks, two callers

Users == {"alice", "bob"}
Procs == {"p1", "p2"}
Backends == {"json", "mssql"}

\* scopes value of a session: None or a comma separated string
NoScopes == <<>>
ScopeInputs == {NoScopes}

VARIABLES
    backend,    \* which SessionStorage sessions._storage is
    userMax,    \* MaxSessions column of the user table (MSSQL backend)
    ttl,        \* JWT_EXPIRATION_MINUTES
    horizon,    \* the tick the clock stops at
    callers,    \* the callers that issue operations
    users,      \* the principals they act for
    grants,     \* the scopes values their sessions are created with
    quantum,    \* the clock units between two values the MSSQL store keeps
    callCap,    \* the number of calls they issue
    calls,      \* the number of calls issued so far
    clock,      \* datetime.now() / GETDATE()
    sessions,   \* the stored records: session_id -> record
    nextId,     \* the next uuid4
    proc,       \* per caller: the operation in progress and its locals
    ret,        \* the call that returned in the last step, if one did
    guard       \* the scope check of a guarded route in progress

vars == <<backend, userMax, ttl, horizon, callers, users, grants, quantum,
          callCap, clock, sessions, nextId, calls, proc, ret, guard>>

config ==
    <<backend, userMax, ttl, horizon, callers, users, grants, quantum,
      callCap>>

\* ------------------------------------------------------------ store reads
Ids == 1..MaxIds

\* the ids a caller can present: those handed out so far and one that never was
KnownIds == {i \in Ids : i <= nextId}

NoSession == [found |-> FALSE]

\* storage_json.py:45-51: _write_sessions has opened sessions.json for
\* writing, which empties it, and has not finished json.dump
Torn == backend = "json" /\ \E p \in Procs : proc[p].pc = "w_dump"

\* storage_json.py:34-43: what a read of the store finds. The JSON store
\* reads the file without the lock, and text that does not parse is {}.
read_sessions == IF Torn THEN <<>> ELSE sessions

\* sessions.py:159  datetime.now() > last_activity + timedelta(minutes=ttl)
IsExpired(la, now) == now > la + ttl

\* storage_json.py:231-234  age_minutes <= expiration_minutes
JsonActive(la, now) == now - la <= ttl

\* storage_mssql.py:278  DATEADD(MINUTE, ?, LastActivity) > GETDATE()
MssqlActive(la, now) == la + ttl > now

StoreActive(la, now) ==
    IF backend = "json" THEN JsonActive(la, now) ELSE MssqlActive(la, now)

\* the ids a store read of user u at time now treats as active
StoreActiveIds(u, now) ==
    {i \in DOMAIN read_sessions :
        /\ read_sessions[i].username = u
        /\ StoreActive(read_sessions[i].last_activity, now)}

count_active_sessions(u, now) == Cardinality(StoreActiveIds(u, now))

\* storage_json.py:292 returns 1; storage_mssql.py:380-382 returns the user's
\* row, or DEFAULT_MAX_SESSIONS (1) for a user without one
DEFAULT_MAX_SESSIONS == 1

get_user_max_sessions(u) ==
    IF backend = "json" THEN 1
    ELSE IF u \in DOMAIN userMax THEN userMax[u] ELSE DEFAULT_MAX_SESSIONS

get_session(id) ==
    IF id \in DOMAIN read_sessions
    THEN [found |-> TRUE,
          session_id |-> id,
          username |-> read_sessions[id].username,
          created_at |-> read_sessions[id].created_at,
          last_activity |-> read_sessions[id].last_activity,
          scopes |-> read_sessions[id].scopes]
    ELSE NoSession

\* get_oldest_session with ORDER BY LastActivity DESC
get_oldest_session_newest(u, now) ==
    LET act == StoreActiveIds(u, now) IN
    IF act = {} THEN {[kind |-> "none"]}
    ELSE {[kind |-> "found", id |-> i] :
            i \in {j \in act : \A k \in act :
                     read_sessions[j].last_activity >=
                         read_sessions[k].last_activity}}

\* get_oldest_session without the lifetime filter
get_oldest_session_any_age(u, now) ==
    LET mine == {i \in DOMAIN read_sessions : read_sessions[i].username = u}
    IN  IF mine = {} THEN {[kind |-> "none"]}
        ELSE {[kind |-> "found", id |-> i] :
                i \in {j \in mine : \A k \in mine :
                         read_sessions[j].last_activity <=
                             read_sessions[k].last_activity}}

\* get_oldest_session: the outcomes the store can produce.
\*   JSON: the loop compares with datetime.fromisoformat(oldest['last_activity'])
\*         where oldest['last_activity'] already is a datetime, so the second
\*         active session of the user raises TypeError.
\*   MSSQL: TOP 1 ... ORDER BY LastActivity ASC, any row among equal minima.
get_oldest_session(u, now) ==
    LET act == StoreActiveIds(u, now) IN
    IF act = {} THEN {[kind |-> "none"]}
    ELSE IF backend = "json"
    THEN IF Cardinality(act) >= 2
         THEN {[kind |-> "error"]}
         ELSE {[kind |-> "found", id |-> i] : i \in act}
    ELSE {[kind |-> "found", id |-> i] :
            i \in {j \in act : \A k \in act :
                     read_sessions[j].last_activity <=
                         read_sessions[k].last_activity}}

\* get_active_sessions() without a username lists every principal
NoUser == ""

\* sessions.py:261-276  the ids get_active_sessions(username) returns
get_active_sessions(u, now) ==
    {i \in DOMAIN read_sessions :
        /\ u # NoUser => read_sessions[i].username = u
        /\ now <= read_sessions[i].last_activity + ttl}

\* ----------------------------------------------------------- store writes
\* storage_mssql.py:52-53: CreatedAt and LastActivity are DATETIME columns,
\* which keep the nearest value of their grid
Round(t) ==
    LET r == t % quantum
    IN  IF 2 * r < quantum THEN t - r ELSE t + quantum - r

\* the value that the store keeps of a datetime it is given; the JSON store
\* keeps its isoformat() text (storage_json.py:73-74, 99)
Stored(t) == IF backend = "mssql" THEN Round(t) ELSE t

\* storage_json.py:31, 55, 69, 96, 106, 116, 198: the writers of the JSON
\* store run under self.lock
LockFree == ~Torn

\* StoreInsert that writes a file holding the new record only
StoreInsert_fresh_file(id, u, now, sc) ==
    [i \in {id} |->
        [username |-> u, created_at |-> Stored(now),
         last_activity |-> Stored(now), scopes |-> sc]]

StoreInsert(id, u, now, sc) ==
    [i \in DOMAIN sessions \cup {id} |->
        IF i = id
        THEN [username |-> u, created_at |-> Stored(now),
              last_activity |-> Stored(now), scopes |-> sc]
        ELSE sessions[i]]

StoreDelete(ids) ==
    [i \in DOMAIN sessions \ ids |-> sessions[i]]

\* StoreTouch that writes created_at as well
StoreTouch_created(id, now) ==
    IF id \in DOMAIN sessions
    THEN [sessions EXCEPT ![id].last_activity = Stored(now),
                          ![id].created_at = Stored(now)]
    ELSE sessions

\* StoreTouch that writes a record for an id that is not stored
StoreTouch_upsert(id, now) ==
    [i \in DOMAIN sessions \cup {id} |->
        IF i = id
        THEN [username |-> "alice", created_at |-> Stored(now),
              last_activity |-> Stored(now), scopes |-> NoScopes]
        ELSE sessions[i]]

StoreTouch(id, now) ==
    IF id \in DOMAIN sessions
    THEN [sessions EXCEPT ![id].last_activity = Stored(now)]
    ELSE sessions

\* ExpiredIds that also takes the sessions at their deadline
ExpiredIds_at_deadline(now) ==
    {i \in DOMAIN sessions : sessions[i].last_activity + ttl <= now}

\* storage_json.py:206-211 / storage_mssql.py:259-260
ExpiredIds(now) ==
    {i \in DOMAIN sessions :
        IF backend = "json"
        THEN now - sessions[i].last_activity > ttl
        ELSE sessions[i].last_activity + ttl < now}

\* ------------------------------------------------------------- processes
\* validate_session returns None
NotFound == [kind |-> "none"]

\* the call was not made by a request guard
NoRequest == [path |-> "none"]

\* what a validator hands back to login_user (endpoints.py:84): type is the
\* Python type of the value, truth its truth value, keys the keys of a dict
Validation(type, truth, keys, username, scopes) ==
    [type |-> type, truth |-> truth, keys |-> keys, username |-> username,
     scopes |-> scopes]

\* the validator returned None
NoValidation == Validation("none", FALSE, {}, "", NoScopes)

\* the call is not a login_user call
NoLogin ==
    [username |-> "", scopes |-> NoScopes, validation_result |-> NoValidation]

Idle ==
    [pc |-> "idle", op |-> "none", user |-> "alice", sid |-> 0,
     renew |-> FALSE, scopes |-> NoScopes, login |-> NoLogin,
     max_sessions |-> 0, active_sessions |-> 0, oldest |-> 0,
     session |-> NoSession, now |-> 0, evicted |-> {},
     request |-> NoRequest, result |-> NotFound,
     after |-> "none", updated |-> TRUE, before |-> <<>>]

NoReturn == [op |-> "none"]

\* p moves inside its operation
Step(p, rec) ==
    /\ proc' = [proc EXCEPT ![p] = rec]
    /\ ret' = NoReturn

\* endpoints.py:75-79, 86-90, 109-113: the answers of a failed login
LoginError(error) == [kind |-> "login", success |-> FALSE, error |-> error]

\* endpoints.py:101-113: login_user wraps what create_session returns, and
\* answers with an error when create_session raises
Answer(c, r) ==
    IF c.op # "login" THEN r
    ELSE IF r.kind = "session"
    THEN [kind |-> "login", success |-> TRUE, session |-> r]
    ELSE IF r.kind = "error" THEN LoginError("Error durante login")
    ELSE r

\* p's operation returns r; c is the caller's frame at the return. A call
\* made by a request guard returns into the guard (middleware.py:123-125).
Return(p, c, r, upd) ==
    /\ proc' = [proc EXCEPT ![p] =
                  IF c.request = NoRequest THEN Idle
                  ELSE [c EXCEPT !.pc = "g_session", !.result = r]]
    /\ ret' = [op |-> c.op, caller |-> p, user |-> c.user, sid |-> c.sid,
               renew |-> c.renew, max_sessions |-> c.max_sessions,
               evicted |-> c.evicted, updated |-> upd,
               login |-> c.login, result |-> Answer(c, r)]

\* storage_json.py:45-51: p has changed the store. The JSON store has
\* emptied the file and goes on to json.dump; before is the content that the
\* writer read under the lock. c is p's frame after the write.
WriteStep(p, c) ==
    IF backend = "json"
    THEN Step(p, [c EXCEPT !.pc = "w_dump", !.after = c.pc,
                           !.before = sessions])
    ELSE Step(p, c)

\* the same for a write after which the call returns r
WriteReturn(p, c, r, upd) ==
    IF backend = "json"
    THEN Step(p, [c EXCEPT !.pc = "w_dump", !.after = "return",
                           !.result = r, !.updated = upd,
                           !.before = sessions])
    ELSE Return(p, c, r, upd)

\* p is free to issue a call
Resting(p) ==
    /\ p \in callers
    /\ proc[p].pc = "idle"
    /\ calls < callCap
    /\ calls' = calls + 1

InFlight(p, label) ==
    /\ proc[p].pc = label
    /\ calls' = calls

IdsOf(u) == {i \in DOMAIN sessions : sessions[i].username = u}

\* no guarded request is being checked
GuardIdle ==
    [pc |-> "idle", required |-> <<>>, granted |-> <<>>,
     req_tokens |-> <<>>, granted_tokens |-> <<>>,
     required_scopes |-> <<>>, user_scopes |-> <<>>, i |-> 0,
     outcome |-> "none", handler_calls |-> 0, dependency |-> "none"]

InitStore ==
    /\ clock = 0
    /\ sessions = <<>>
    /\ nextId = 1
    /\ calls = 0
    /\ proc = [p \in Procs |-> Idle]
    /\ ret = NoReturn

\* the user table holds a row for alice only
InitConfig ==
    /\ backend \in Backends
    /\ userMax \in [{"alice"} -> 0..MaxQuota]
    /\ (backend = "json" => userMax["alice"] = 1)

\* two callers act for one principal on a shared store
Init ==
    /\ InitConfig
    /\ ttl = TtlConc
    /\ horizon = MaxTimeConc
    /\ callers = Procs
    /\ users = {"alice"}
    /\ grants = ScopeInputs
    /\ quantum = 1
    /\ callCap = MaxCalls
    /\ InitStore
    /\ guard = GuardIdle

\* one caller: every operation runs without another one interleaved
InitSeq ==
    /\ InitConfig
    /\ ttl = Ttl
    /\ horizon = MaxTime
    /\ callers = {"p1"}
    /\ users = Users
    /\ grants = ScopeInputs
    /\ quantum = 1
    /\ callCap = MaxCalls
    /\ InitStore
    /\ guard = GuardIdle

Tick ==
    /\ clock < horizon
    /\ clock' = clock + 1
    /\ ret' = NoReturn
    /\ UNCHANGED <<config, guard, sessions, nextId, calls, proc>>

\* ---------------------------------------------- sessions.create_session
\* lines 85-91: ensure_sessions_table, read the user's limit
create_session_call(p, u, sc) ==
    /\ Resting(p)
    /\ LockFree
    /\ nextId <= MaxIds
    /\ Step(p, [Idle EXCEPT !.pc = "c_count", !.op = "create", !.user = u,
                            !.scopes = sc,
                            !.max_sessions = get_user_max_sessions(u)])
    /\ UNCHANGED <<config, guard, clock, sessions, nextId>>

\* line 94
create_session_count(p) ==
    /\ InFlight(p, "c_count")
    /\ Step(p, [proc[p] EXCEPT !.pc = "c_loop",
                  !.active_sessions =
                      count_active_sessions(proc[p].user, clock)])
    /\ UNCHANGED <<config, guard, clock, sessions, nextId>>

\* the loop without lines 102-103: no break when no session is found
create_session_loop_no_break(p) ==
    /\ InFlight(p, "c_loop")
    /\ IF proc[p].active_sessions >= proc[p].max_sessions
       THEN \E o \in get_oldest_session(proc[p].user, clock) :
              CASE o.kind = "found" ->
                     Step(p, [proc[p] EXCEPT !.pc = "c_evict",
                                             !.oldest = o.id])
                [] o.kind = "none" ->
                     Step(p, [proc[p] EXCEPT !.pc = "c_loop"])
                [] OTHER ->
                     Return(p, proc[p], [kind |-> "error"], TRUE)
       ELSE Step(p, [proc[p] EXCEPT !.pc = "c_insert"])
    /\ UNCHANGED <<config, guard, clock, sessions, nextId>>

\* lines 97-99, 102-103: loop test and get_oldest_session
create_session_loop(p) ==
    /\ InFlight(p, "c_loop")
    /\ IF proc[p].active_sessions >= proc[p].max_sessions
       THEN \E o \in get_oldest_session(proc[p].user, clock) :
              CASE o.kind = "found" ->
                     Step(p, [proc[p] EXCEPT !.pc = "c_evict",
                                             !.oldest = o.id])
                [] o.kind = "none" ->
                     Step(p, [proc[p] EXCEPT !.pc = "c_insert"])
                [] OTHER ->
                     Return(p, proc[p], [kind |-> "error"], TRUE)
       ELSE Step(p, [proc[p] EXCEPT !.pc = "c_insert"])
    /\ UNCHANGED <<config, guard, clock, sessions, nextId>>

\* the records this call has deleted so far, with their last_activity
Evicted(p) ==
    IF proc[p].oldest \in DOMAIN sessions
    THEN proc[p].evicted \cup
           {[id |-> proc[p].oldest,
             last_activity |-> sessions[proc[p].oldest].last_activity]}
    ELSE proc[p].evicted

\* lines 100-101: storage.delete_session(oldest['session_id'])
create_session_evict(p) ==
    /\ InFlight(p, "c_evict")
    /\ LockFree
    /\ sessions' = StoreDelete({proc[p].oldest})
    /\ LET c == [proc[p] EXCEPT !.pc = "c_loop",
                   !.active_sessions = proc[p].active_sessions - 1,
                   !.evicted = Evicted(p)]
       IN  IF proc[p].oldest \in DOMAIN sessions
           THEN WriteStep(p, c) ELSE Step(p, c)
    /\ UNCHANGED <<config, guard, clock, nextId>>

\* storage.create_session: the JSON store writes the record; the MSSQL store
\* returns False when the INSERT raises (storage_mssql.py:85-86)
InsertOutcomes == IF backend = "json" THEN {TRUE} ELSE {TRUE, FALSE}

\* lines 105-123: the return value of storage.create_session is not read
create_session_insert(p) ==
    /\ InFlight(p, "c_insert")
    /\ LockFree
    /\ \E ok \in InsertOutcomes :
         /\ sessions' = IF ok
                        THEN StoreInsert(nextId, proc[p].user, clock,
                                         proc[p].scopes)
                        ELSE sessions
         /\ LET c == [proc[p] EXCEPT !.sid = nextId]
                r == [kind |-> "session", session_id |-> nextId,
                      username |-> proc[p].user,
                      created_at |-> clock,
                      expires_at |-> clock + ttl,
                      scopes |-> proc[p].scopes]
            IN  IF ok THEN WriteReturn(p, c, r, ok) ELSE Return(p, c, r, ok)
    /\ nextId' = nextId + 1
    /\ UNCHANGED <<config, guard, clock>>

create_session(p) ==
    \/ \E u \in users, sc \in grants : create_session_call(p, u, sc)
    \/ create_session_count(p)
    \/ create_session_loop(p)
    \/ create_session_evict(p)
    \/ create_session_insert(p)

\* -------------------------------------------- sessions.validate_session
\* lines 144-151: storage.get_session, in the frame c0 of the caller
validate_session_begin(p, c0) ==
    /\ Resting(p)
    /\ LET s == get_session(c0.sid)
           c == [c0 EXCEPT !.pc = "v_check", !.session = s]
       IN IF s.found THEN Step(p, c) ELSE Return(p, c, NotFound, TRUE)
    /\ UNCHANGED <<config, guard, clock, sessions, nextId>>

validate_session_get(p, id, renew, o) ==
    validate_session_begin(p, [Idle EXCEPT !.op = o, !.sid = id,
                                           !.renew = renew])

\* SessionView with expires_at taken from the record that was read
SessionView_stored_expiry(s, la) ==
    [kind |-> "session", session_id |-> s.session_id,
     username |-> s.username, created_at |-> s.created_at,
     last_activity |-> la, expires_at |-> s.last_activity + ttl,
     scopes |-> s.scopes]

\* lines 173-180
SessionView(s, la) ==
    [kind |-> "session", session_id |-> s.session_id,
     username |-> s.username, created_at |-> s.created_at,
     last_activity |-> la, expires_at |-> la + ttl, scopes |-> s.scopes]

\* validate_session_check that renews whatever renew says
validate_session_check_renews(p) ==
    /\ InFlight(p, "v_check")
    /\ IF IsExpired(proc[p].session.last_activity, clock)
       THEN Return(p, proc[p], NotFound, TRUE)
       ELSE Step(p, [proc[p] EXCEPT !.pc = "v_now"])
    /\ UNCHANGED <<config, guard, clock, sessions, nextId>>

\* validate_session_check without the expiry test
validate_session_check_no_expiry(p) ==
    /\ InFlight(p, "v_check")
    /\ IF proc[p].renew
       THEN Step(p, [proc[p] EXCEPT !.pc = "v_now"])
       ELSE Return(p, proc[p],
                   SessionView(proc[p].session,
                               proc[p].session.last_activity), TRUE)
    /\ UNCHANGED <<config, guard, clock, sessions, nextId>>

\* lines 155-163: the expiry test on the record that was read
validate_session_check(p) ==
    /\ InFlight(p, "v_check")
    /\ IF IsExpired(proc[p].session.last_activity, clock)
       THEN Return(p, proc[p], NotFound, TRUE)
       ELSE IF proc[p].renew
       THEN Step(p, [proc[p] EXCEPT !.pc = "v_now"])
       ELSE Return(p, proc[p],
                   SessionView(proc[p].session,
                               proc[p].session.last_activity), TRUE)
    /\ UNCHANGED <<config, guard, clock, sessions, nextId>>

\* line 164: now = datetime.now()
validate_session_now(p) ==
    /\ InFlight(p, "v_now")
    /\ Step(p, [proc[p] EXCEPT !.pc = "v_touch", !.now = clock])
    /\ UNCHANGED <<config, guard, clock, sessions, nextId>>

\* storage_json.py:94-102, storage_mssql.py:117-132: True iff a row was updated
update_last_activity(id) == id \in DOMAIN sessions

\* lines 165-180: storage.update_last_activity, whose result is not read
validate_session_touch(p) ==
    /\ InFlight(p, "v_touch")
    /\ LockFree
    /\ sessions' = StoreTouch(proc[p].sid, proc[p].now)
    /\ IF update_last_activity(proc[p].sid)
       THEN WriteReturn(p, proc[p],
                        SessionView(proc[p].session, proc[p].now), TRUE)
       ELSE Return(p, proc[p],
                   SessionView(proc[p].session, proc[p].now), FALSE)
    /\ UNCHANGED <<config, guard, clock, nextId>>

\* endpoints.get_session_info is validate_session(session_id, renew=False)
validate_session(p) ==
    \/ \E id \in KnownIds, renew \in BOOLEAN :
          validate_session_get(p, id, renew, "validate")
    \/ \E id \in KnownIds : validate_session_get(p, id, FALSE, "info")
    \/ validate_session_check(p)
    \/ validate_session_now(p)
    \/ validate_session_touch(p)

\* ------------------------------------------------- the one-call operations
\* the records of ids that the call removes, with their last_activity
Removed(ids) ==
    {[id |-> i, last_activity |-> sessions[i].last_activity] :
        i \in ids \cap DOMAIN sessions}

\* endpoints.py:134-145: the answer of logout_user
LogoutResponse(deleted) ==
    [kind |-> "logout", success |-> deleted,
     message |-> IF deleted THEN "Sesion cerrada exitosamente"
                 ELSE "Sesion no encontrada"]

\* delete_session_as that reports a removal whatever it found
delete_session_as_found(p, id, o) ==
    /\ Resting(p)
    /\ LockFree
    /\ sessions' = StoreDelete({id})
    /\ LET c == [Idle EXCEPT !.op = o, !.sid = id,
                             !.evicted = Removed({id})]
           r == IF o = "logout" THEN LogoutResponse(TRUE)
                ELSE [kind |-> "bool", value |-> TRUE]
       IN  IF id \in DOMAIN sessions
           THEN WriteReturn(p, c, r, TRUE) ELSE Return(p, c, r, TRUE)
    /\ UNCHANGED <<config, guard, clock, nextId>>

\* sessions.py:198-199, storage_json.py:104-112, storage_mssql.py:134-145,
\* called directly (o = "delete") or by endpoints.logout_user (o = "logout")
delete_session_as(p, id, o) ==
    /\ Resting(p)
    /\ LockFree
    /\ sessions' = StoreDelete({id})
    /\ LET c == [Idle EXCEPT !.op = o, !.sid = id,
                             !.evicted = Removed({id})]
           r == IF o = "logout" THEN LogoutResponse(id \in DOMAIN sessions)
                ELSE [kind |-> "bool", value |-> id \in DOMAIN sessions]
       IN  IF id \in DOMAIN sessions
           THEN WriteReturn(p, c, r, TRUE) ELSE Return(p, c, r, TRUE)
    /\ UNCHANGED <<config, guard, clock, nextId>>

delete_session(p, id) == delete_session_as(p, id, "delete")

\* endpoints.py:116-151
logout_user(p, id) == delete_session_as(p, id, "logout")

\* delete_user_sessions that spares the expired sessions
delete_user_sessions_active_only(p, u) ==
    /\ Resting(p)
    /\ LockFree
    /\ sessions' = StoreDelete(StoreActiveIds(u, clock))
    /\ LET c == [Idle EXCEPT !.op = "delete_user", !.user = u,
                   !.evicted = Removed(StoreActiveIds(u, clock))]
           r == [kind |-> "int",
                 value |-> Cardinality(StoreActiveIds(u, clock))]
       IN  IF StoreActiveIds(u, clock) # {}
           THEN WriteReturn(p, c, r, TRUE) ELSE Return(p, c, r, TRUE)
    /\ UNCHANGED <<config, guard, clock, nextId>>

\* sessions.py:216-217, storage_json.py:114-126, storage_mssql.py:147-158
delete_user_sessions(p, u) ==
    /\ Resting(p)
    /\ LockFree
    /\ sessions' = StoreDelete(IdsOf(u))
    /\ LET c == [Idle EXCEPT !.op = "delete_user", !.user = u,
                             !.evicted = Removed(IdsOf(u))]
           r == [kind |-> "int", value |-> Cardinality(IdsOf(u))]
       IN  IF IdsOf(u) # {}
           THEN WriteReturn(p, c, r, TRUE) ELSE Return(p, c, r, TRUE)
    /\ UNCHANGED <<config, guard, clock, nextId>>

\* sessions.py:234-236
cleanup_expired_sessions(p) ==
    /\ Resting(p)
    /\ LockFree
    /\ sessions' = StoreDelete(ExpiredIds(clock))
    /\ LET c == [Idle EXCEPT !.op = "cleanup",
                             !.evicted = Removed(ExpiredIds(clock))]
           r == [kind |-> "int", value |-> Cardinality(ExpiredIds(clock))]
       IN  IF ExpiredIds(clock) # {}
           THEN WriteReturn(p, c, r, TRUE) ELSE Return(p, c, r, TRUE)
    /\ UNCHANGED <<config, guard, clock, nextId>>

\* storage_json.py:50-51: json.dump has written the file and the lock is
\* released; the caller goes on
write_sessions(p) ==
    /\ InFlight(p, "w_dump")
    /\ LET c == [proc[p] EXCEPT !.pc = proc[p].after, !.after = "none",
                                !.before = <<>>, !.updated = TRUE,
                                !.result = NotFound]
       IN  IF proc[p].after = "return"
           THEN Return(p, c, proc[p].result, proc[p].updated)
           ELSE Step(p, c)
    /\ UNCHANGED <<config, guard, clock, sessions, nextId>>

\* sessions.py:258-276
list_active_sessions(p, u) ==
    /\ Resting(p)
    /\ Return(p, [Idle EXCEPT !.op = "list", !.user = u],
              [kind |-> "list",
               sessions |-> {SessionView(get_session(i),
                                         read_sessions[i].last_activity) :
                               i \in get_active_sessions(u, clock)}], TRUE)
    /\ UNCHANGED <<config, guard, clock, sessions, nextId>>

Operation(p) ==
    \/ create_session(p)
    \/ validate_session(p)
    \/ \E id \in KnownIds : delete_session(p, id)
    \/ \E u \in users : delete_user_sessions(p, u)
    \/ cleanup_expired_sessions(p)
    \/ \E u \in users \cup {NoUser} : list_active_sessions(p, u)
    \/ write_sessions(p)

Next ==
    \/ Tick
    \/ \E p \in Procs : Operation(p)

Spec == Init /\ [][Next]_vars

SpecSeq == InitSeq /\ [][Next]_vars

\* the clock units of one step of the DATETIME grid
Quantum == 3

\* one caller and a clock that is finer than the DATETIME grid
InitPrecise ==
    /\ backend \in Backends
    /\ userMax = [u \in {"alice"} |-> 1]
    /\ ttl = Ttl
    /\ horizon = MaxTime
    /\ callers = {"p1"}
    /\ users = {"alice"}
    /\ grants = ScopeInputs
    /\ quantum = Quantum
    /\ callCap = MaxCalls
    /\ InitStore
    /\ guard = GuardIdle

SpecPrecise == InitPrecise /\ [][Next]_vars

\* ------------------------------------------- the store's create_session
\* storage_json.py:59-78: sessions[session_id] = {...} under the lock, then
\* _write_sessions, return True.
\* storage_mssql.py:66-89: INSERT into a table whose SessionID is the primary
\* key (line 49); any exception, a duplicate key included, returns False.
storage_create_session(p, id, u, sc) ==
    /\ Resting(p)
    /\ LockFree
    /\ LET c == [Idle EXCEPT !.op = "store_create", !.user = u, !.sid = id,
                             !.scopes = sc]
       IN  IF backend = "json"
           THEN /\ sessions' = StoreInsert(id, u, clock, sc)
                /\ WriteReturn(p, c, [kind |-> "bool", value |-> TRUE], TRUE)
           ELSE \E ok \in IF id \in DOMAIN sessions
                          THEN {FALSE} ELSE InsertOutcomes :
                  /\ sessions' = IF ok THEN StoreInsert(id, u, clock, sc)
                                 ELSE sessions
                  /\ Return(p, c, [kind |-> "bool", value |-> ok], ok)
    /\ UNCHANGED <<config, guard, clock, nextId>>

\* storage_json.py:154-170: min over all the records of the user by
\* 'last_activity', del, _write_sessions.
\* storage_mssql.py:191-210: DELETE the row that SELECT TOP 1 ... WHERE
\* Username = ? ORDER BY LastActivity ASC names. Neither reads the session
\* lifetime. Among equal last_activity values MSSQL picks any row; the JSON
\* store picks the first in file order, which sessions does not record.
OldestIds(u) ==
    {i \in IdsOf(u) :
        \A k \in IdsOf(u) :
            sessions[i].last_activity <= sessions[k].last_activity}

\* OldestIds among the sessions that are still active
OldestIds_active(u) ==
    {i \in IdsOf(u) :
        /\ StoreActive(sessions[i].last_activity, clock)
        /\ \A k \in IdsOf(u) :
              StoreActive(sessions[k].last_activity, clock)
              => sessions[i].last_activity <= sessions[k].last_activity}

storage_delete_oldest_session(p, u) ==
    /\ Resting(p)
    /\ LockFree
    /\ LET c == [Idle EXCEPT !.op = "store_delete_oldest", !.user = u]
       IN  IF OldestIds(u) = {}
           THEN /\ sessions' = sessions
                /\ Return(p, c, [kind |-> "bool", value |-> FALSE], TRUE)
           ELSE \E i \in OldestIds(u) :
                  /\ sessions' = StoreDelete({i})
                  /\ WriteReturn(p, [c EXCEPT !.sid = i,
                                              !.evicted = Removed({i})],
                                 [kind |-> "bool", value |-> TRUE], TRUE)
    /\ UNCHANGED <<config, guard, clock, nextId>>

\* one caller of the store, ids of its own choice
InitStorage ==
    /\ backend \in Backends
    /\ userMax = [u \in {"alice"} |-> 1]
    /\ ttl = TtlConc
    /\ horizon = MaxTimeConc
    /\ callers = {"p1"}
    /\ users = Users
    /\ grants = ScopeInputs
    /\ quantum = 1
    /\ callCap = MaxCalls
    /\ InitStore
    /\ guard = GuardIdle

NextStorage ==
    \/ Tick
    \/ \E p \in Procs :
         \/ \E id \in Ids, u \in users, sc \in grants :
              storage_create_session(p, id, u, sc)
         \/ \E u \in users : storage_delete_oldest_session(p, u)
         \/ write_sessions(p)

SpecStorage == InitStorage /\ [][NextStorage]_vars

\* ------------------------------------------------ the eviction loop, fair
\* storage_mssql.py:379-380 returns the user's MaxSessions column as it is
\* stored: zero and negative values reach the loop test of create_session
InitLoop ==
    /\ backend \in Backends
    /\ userMax \in [{"alice"} -> (0 - MaxQuota)..MaxQuota]
    /\ (backend = "json" => userMax["alice"] = 1)
    /\ ttl = TtlConc
    /\ horizon = MaxTimeConc
    /\ callers = Procs
    /\ users = {"alice"}
    /\ grants = {NoScopes}
    /\ quantum = 1
    /\ callCap = MaxCalls
    /\ InitStore
    /\ guard = GuardIdle

\* threads that create sessions and threads that delete them
NextLoop ==
    \/ Tick
    \/ \E p \in Procs :
         \/ create_session(p)
         \/ \E id \in KnownIds : delete_session(p, id)
         \/ write_sessions(p)

\* a thread inside create_session or inside a store write is scheduled
\* again; threading.Lock is released at the end of every store method
Running(p) ==
    \/ create_session_count(p)
    \/ create_session_loop(p)
    \/ create_session_evict(p)
    \/ create_session_insert(p)
    \/ write_sessions(p)

SpecLoop ==
    InitLoop /\ [][NextLoop]_vars /\ \A p \in Procs : WF_vars(Running(p))

\* ======================================================= the scope check
\* A str is the sequence of its characters.
RECURSIVE Split(_, _)
\* str.split(sep)
Split(s, sep) ==
    IF \A i \in DOMAIN s : s[i] # sep THEN <<s>>
    ELSE LET k == CHOOSE i \in DOMAIN s :
                     s[i] = sep /\ \A j \in 1..(i - 1) : s[j] # sep
         IN <<SubSeq(s, 1, k - 1)>> \o Split(SubSeq(s, k + 1, Len(s)), sep)

\* str.split(sep, 1) of a str that contains sep
SplitOnce(s, sep) ==
    LET k == CHOOSE i \in DOMAIN s :
                 s[i] = sep /\ \A j \in 1..(i - 1) : s[j] # sep
    IN <<SubSeq(s, 1, k - 1), SubSeq(s, k + 1, Len(s))>>

RECURSIVE Strip(_)
\* str.strip()
Strip(s) ==
    IF s = <<>> THEN s
    ELSE IF Head(s) = " " THEN Strip(Tail(s))
    ELSE IF s[Len(s)] = " " THEN Strip(SubSeq(s, 1, Len(s) - 1))
    ELSE s

\* ch in s, x in list
Has(s, ch) == \E i \in DOMAIN s : s[i] = ch

\* [p.strip() for p in s.split(',')]
StripAll(parts) == [i \in DOMAIN parts |-> Strip(parts[i])]

RECURSIVE ReMatch(_, _)
\* re.match('^' + subsystem.replace('*', '.*') + '$', s): '*' stands for any
\* run of characters, '.' for any one character, a name character for itself
ReMatch(pat, s) ==
    IF pat = <<>> THEN s = <<>>
    ELSE IF Head(pat) = "*"
    THEN ReMatch(Tail(pat), s) \/ (s # <<>> /\ ReMatch(pat, Tail(s)))
    ELSE /\ s # <<>>
         /\ Head(pat) = "." \/ Head(pat) = Head(s)
         /\ ReMatch(Tail(pat), Tail(s))

ADMIN == <<"a", "d", "m", "i", "n">>

\* middleware.py:157-166
SubsystemMatch(req_subsystem, user_subsystem) ==
    IF Has(req_subsystem, "*")
    THEN ReMatch(req_subsystem, user_subsystem)
    ELSE req_subsystem = user_subsystem

\* middleware.py:150-177: one user scope against a 'subsystem:perms' token
UserScopeMatches(req_subsystem, req_perms_list, user_scope) ==
    /\ Has(user_scope, ":")
    /\ LET us == SplitOnce(user_scope, ":")
           user_perms_list == StripAll(Split(us[2], ","))
       IN /\ SubsystemMatch(req_subsystem, us[1])
          /\ \/ Has(user_perms_list, ADMIN)
             \/ \A k \in DOMAIN req_perms_list :
                   Has(user_perms_list, req_perms_list[k])

\* middleware.py:142-181: the value of matched for one required token
Matched(required, user_scopes) ==
    IF Has(required, ":")
    THEN LET rq == SplitOnce(required, ":")
             req_perms_list == StripAll(Split(rq[2], ","))
         IN \E k \in DOMAIN user_scopes :
               UserScopeMatches(rq[1], req_perms_list, user_scopes[k])
    ELSE Has(user_scopes, required)

\* middleware.py:137-138
ParseScopes(str) == IF str = <<>> THEN <<>> ELSE StripAll(Split(str, ","))

\* middleware.py:134-138: the route's scopes and the session's scopes
scope_check_begin ==
    /\ guard.pc = "begin"
    /\ IF guard.required = <<>>
       THEN guard' = [guard EXCEPT !.pc = "call"]
       ELSE guard' = [guard EXCEPT !.pc = "loop", !.i = 1,
                        !.required_scopes = ParseScopes(guard.required),
                        !.user_scopes = ParseScopes(guard.granted)]
    /\ UNCHANGED <<config, clock, sessions, nextId, calls, proc, ret>>

\* scope_check_required that goes on to the next required scope after a miss
scope_check_required_no_stop ==
    /\ guard.pc = "loop"
    /\ IF guard.i > Len(guard.required_scopes)
       THEN guard' = [guard EXCEPT !.pc = "call"]
       ELSE guard' = [guard EXCEPT !.i = guard.i + 1]
    /\ UNCHANGED <<config, clock, sessions, nextId, calls, proc, ret>>

\* middleware.py:141-189: one pass of the loop over the required scopes
scope_check_required ==
    /\ guard.pc = "loop"
    /\ IF guard.i > Len(guard.required_scopes)
       THEN guard' = [guard EXCEPT !.pc = "call"]
       ELSE IF Matched(guard.required_scopes[guard.i], guard.user_scopes)
       THEN guard' = [guard EXCEPT !.i = guard.i + 1]
       ELSE guard' = [guard EXCEPT !.pc = "done", !.outcome = "403"]
    /\ UNCHANGED <<config, clock, sessions, nextId, calls, proc, ret>>

\* middleware.py:191-195: the session is injected and the handler runs
scope_check_call ==
    /\ guard.pc = "call"
    /\ guard' = [guard EXCEPT !.pc = "done", !.outcome = "handler",
                   !.handler_calls = guard.handler_calls + 1]
    /\ UNCHANGED <<config, clock, sessions, nextId, calls, proc, ret>>

\* middleware.py:335-343 (SessionDependency)
DependencySubsystemMatch(req_subsystem, user_subsystem) ==
    IF Has(req_subsystem, "*")
    THEN ReMatch(req_subsystem, user_subsystem)
    ELSE req_subsystem = user_subsystem

\* DependencyUserScopeMatches without the 'admin' permission
DependencyUserScopeMatches_no_admin(req_subsystem, req_perms_list, user_scope) ==
    /\ Has(user_scope, ":")
    /\ LET us == SplitOnce(user_scope, ":")
           user_perms_list == StripAll(Split(us[2], ","))
       IN /\ DependencySubsystemMatch(req_subsystem, us[1])
          /\ \A k \in DOMAIN req_perms_list :
                Has(user_perms_list, req_perms_list[k])

\* middleware.py:327-354 (SessionDependency): one user scope against a
\* 'subsystem:perms' token
DependencyUserScopeMatches(req_subsystem, req_perms_list, user_scope) ==
    /\ Has(user_scope, ":")
    /\ LET us == SplitOnce(user_scope, ":")
           user_perms_list == StripAll(Split(us[2], ","))
       IN /\ DependencySubsystemMatch(req_subsystem, us[1])
          /\ \/ Has(user_perms_list, ADMIN)
             \/ \A k \in DOMAIN req_perms_list :
                   Has(user_perms_list, req_perms_list[k])

\* middleware.py:317-358 (SessionDependency): the value of matched for one
\* required token
DependencyMatched(required, user_scopes) ==
    IF Has(required, ":")
    THEN LET rq == SplitOnce(required, ":")
             req_perms_list == StripAll(Split(rq[2], ","))
         IN \E k \in DOMAIN user_scopes :
               DependencyUserScopeMatches(rq[1], req_perms_list,
                                          user_scopes[k])
    ELSE Has(user_scopes, required)

\* middleware.py:310-364: SessionDependency.__call__ checks the same request
\* and returns the session or raises 403
dependency_scope_check ==
    /\ guard.pc = "done"
    /\ guard.dependency = "none"
    /\ LET required_scopes == ParseScopes(guard.required)
           user_scopes == ParseScopes(guard.granted)
       IN  guard' = [guard EXCEPT !.dependency =
                IF guard.required = <<>> THEN "session"
                ELSE IF \A i \in DOMAIN required_scopes :
                          DependencyMatched(required_scopes[i], user_scopes)
                THEN "session" ELSE "403"]
    /\ UNCHANGED <<config, clock, sessions, nextId, calls, proc, ret>>

NextScope ==
    \/ scope_check_begin
    \/ scope_check_required
    \/ scope_check_call
    \/ dependency_scope_check

\* ------------------------------------------- the inputs of the scope check
\* a scope token: a bare name, or a subsystem with a list of permissions
Bare(n) == [bare |-> TRUE, name |-> n, perms |-> <<>>]
Qualified(n, ps) == [bare |-> FALSE, name |-> n, perms |-> ps]

RECURSIVE Join(_, _)
\* sep.join(parts)
Join(parts, sep) ==
    IF parts = <<>> THEN <<>>
    ELSE IF Len(parts) = 1 THEN parts[1]
    ELSE parts[1] \o <<sep>> \o Join(Tail(parts), sep)

RenderToken(t) ==
    IF t.bare THEN t.name ELSE t.name \o <<":">> \o Join(t.perms, ",")

RenderScopes(ts) == Join([i \in DOMAIN ts |-> RenderToken(ts[i])], ",")

READ == <<"r", "e", "a", "d">>
WRITE == <<"w", "r", "i", "t", "e">>
BILLING == <<"b", "i", "l", "l", "i", "n", "g">>
INVOICES == <<"i", "n", "v", "o", "i", "c", "e", "s">>
ORDERS_EU == <<"o", "r", "d", "e", "r", "s", "-", "e", "u">>
ORDERS_ANY == <<"o", "r", "d", "e", "r", "s", "-", "*">>
ORDERS_DOT == <<"o", "r", "d", "e", "r", "s", ".", "*">>

RequiredPerms == {<<READ>>, <<WRITE>>, <<READ, WRITE>>, <<WRITE, READ>>}
GrantedPerms == {<<READ>>, <<WRITE>>, <<READ, WRITE>>, <<ADMIN>>}

RequiredTokens ==
    {Bare(READ), Bare(WRITE), Qualified(ORDERS_ANY, <<READ>>),
     Qualified(ORDERS_DOT, <<READ>>)} \cup
    {Qualified(BILLING, ps) : ps \in RequiredPerms}

GrantedTokens ==
    {Bare(WRITE), Qualified(INVOICES, <<READ, WRITE>>),
     Qualified(ORDERS_EU, <<READ>>)} \cup
    {Qualified(BILLING, ps) : ps \in GrantedPerms}

MaxRequired == 2
MaxGranted == 2

\* the lists of at most n tokens in which no bare token follows a
\* subsystem token, so that the rendered string reads back as the same list
TokenLists(T, n) ==
    {ts \in UNION {[1..k -> T] : k \in 0..n} :
        \A i \in DOMAIN ts : \A j \in DOMAIN ts :
            (i < j /\ ts[j].bare) => ts[i].bare}

InitScope ==
    /\ backend = "json"
    /\ userMax = [u \in {"alice"} |-> DEFAULT_MAX_SESSIONS]
    /\ ttl = Ttl
    /\ horizon = 0
    /\ callers = {}
    /\ users = {}
    /\ grants = {}
    /\ quantum = 1
    /\ callCap = 0
    /\ InitStore
    /\ \E rt \in TokenLists(RequiredTokens, MaxRequired),
          gt \in TokenLists(GrantedTokens, MaxGranted) :
         guard = [GuardIdle EXCEPT !.pc = "begin",
                    !.req_tokens = rt, !.granted_tokens = gt,
                    !.required = RenderScopes(rt),
                    !.granted = RenderScopes(gt)]

SpecScope == InitScope /\ [][NextScope]_vars

\* ==================================================== the request guards
BEARER == <<"b", "e", "a", "r", "e", "r">>
BEARER_TITLE == <<"B", "e", "a", "r", "e", "r">>
BASIC == <<"B", "a", "s", "i", "c">>

\* str.lower() over the letters that the headers use
Lower(s) == [i \in DOMAIN s |-> IF s[i] = "B" THEN "b" ELSE s[i]]

\* the wrappers that answer the request themselves
Guards == {"require_auth", "SessionDependency"}

Paths == Guards \cup {"get_session_from_request"}

\* request.cookies.get('Sesion_Auth') finds nothing
NoCookie == 0

NoToken == [kind |-> "no_token"]

\* the wrapper raises 401 on the header alone
Rejected == [kind |-> "rejected"]

\* ExtractToken that reads the cookie whenever the header gives no token
ExtractToken_lenient(path, parts, cookie) ==
    IF Len(parts) = 2 /\ Lower(parts[1]) = BEARER
    THEN [kind |-> "token", id |-> parts[2], from |-> "header"]
    ELSE IF cookie # NoCookie
    THEN [kind |-> "token", id |-> cookie, from |-> "cookie"]
    ELSE NoToken

\* middleware.py:85-113, 229-246, 276-301: the session id that a request
\* presents. parts is auth_header.split(), <<>> for a header that is absent
\* or empty.
ExtractToken(path, parts, cookie) ==
    LET header ==
            IF parts = <<>> THEN NoToken
            ELSE IF Len(parts) = 2 /\ Lower(parts[1]) = BEARER
            THEN [kind |-> "token", id |-> parts[2], from |-> "header"]
            ELSE IF path \in Guards THEN Rejected ELSE NoToken
    IN  IF header # NoToken THEN header
        ELSE IF cookie # NoCookie
        THEN [kind |-> "token", id |-> cookie, from |-> "cookie"]
        ELSE NoToken

\* what the wrapper answers: kind is "handler" (the handler ran and its
\* answer is returned), "401", "403", or for get_session_from_request
\* "session" and "none"
GuardResult(kind, req, tok, session, validated, handler_calls) ==
    [kind |-> kind,
     detail |-> IF kind = "401" /\ tok = Rejected
                THEN "Formato de Authorization invalido. Use: Bearer <token>"
                ELSE IF kind = "401" THEN "Autorizacion requerida"
                ELSE IF kind = "403" THEN "Permisos insuficientes"
                ELSE "",
     request |-> req, token |-> tok, session |-> session,
     validated |-> validated, handler_calls |-> handler_calls]

\* guard_request that validates with renew=False
guard_request_no_renew(p, path, scopes, parts, cookie) ==
    /\ Resting(p)
    /\ LET req == [path |-> path, scopes |-> scopes, auth_header |-> parts,
                   cookie |-> cookie]
           tok == ExtractToken(path, parts, cookie)
       IN  IF tok.kind = "token"
           THEN validate_session_begin(p,
                    [Idle EXCEPT !.op = "validate", !.sid = tok.id,
                                 !.renew = FALSE, !.request = req])
           ELSE /\ Return(p, [Idle EXCEPT !.op = "guard"],
                          GuardResult(IF path \in Guards THEN "401"
                                      ELSE "none",
                                      req, tok, NotFound, FALSE, 0), TRUE)
                /\ UNCHANGED <<config, guard, clock, sessions, nextId>>

\* middleware.py:85-123, 229-248, 276-304: the wrapper takes the token out
\* of the request and calls validate_session(session_id, renew=True)
guard_request(p, path, scopes, parts, cookie) ==
    /\ Resting(p)
    /\ LET req == [path |-> path, scopes |-> scopes, auth_header |-> parts,
                   cookie |-> cookie]
           tok == ExtractToken(path, parts, cookie)
       IN  IF tok.kind = "token"
           THEN validate_session_begin(p,
                    [Idle EXCEPT !.op = "validate", !.sid = tok.id,
                                 !.renew = TRUE, !.request = req])
           ELSE /\ Return(p, [Idle EXCEPT !.op = "guard"],
                          GuardResult(IF path \in Guards THEN "401"
                                      ELSE "none",
                                      req, tok, NotFound, FALSE, 0), TRUE)
                /\ UNCHANGED <<config, guard, clock, sessions, nextId>>

\* the token that the request in flight presented
Presented(c) ==
    ExtractToken(c.request.path, c.request.auth_header, c.request.cookie)

\* guard_session that goes on to the scope check without a session
guard_session_no_check(p) ==
    /\ InFlight(p, "g_session")
    /\ LET c == proc[p]
       IN  /\ Step(p, [c EXCEPT !.pc = "g_scopes"])
           /\ guard' = [GuardIdle EXCEPT !.pc = "begin",
                          !.required = c.request.scopes,
                          !.granted = IF c.result = NotFound THEN NoScopes
                                      ELSE c.result.scopes]
    /\ UNCHANGED <<config, clock, sessions, nextId>>

\* middleware.py:125-132, 246-248, 303-310: the answer of validate_session
guard_session(p) ==
    /\ InFlight(p, "g_session")
    /\ LET c == proc[p]
       IN  IF c.request.path = "get_session_from_request"
           THEN /\ Return(p, [Idle EXCEPT !.op = "guard", !.sid = c.sid],
                          GuardResult(IF c.result = NotFound THEN "none"
                                      ELSE "session",
                                      c.request, Presented(c), c.result,
                                      TRUE, 0), TRUE)
                /\ guard' = guard
           ELSE IF c.result = NotFound
           THEN /\ Return(p, [Idle EXCEPT !.op = "guard", !.sid = c.sid],
                          GuardResult("401", c.request, Presented(c),
                                      NotFound, TRUE, 0), TRUE)
                /\ guard' = guard
           ELSE /\ Step(p, [c EXCEPT !.pc = "g_scopes"])
                /\ guard' = [GuardIdle EXCEPT !.pc = "begin",
                               !.required = c.request.scopes,
                               !.granted = c.result.scopes]
    /\ UNCHANGED <<config, clock, sessions, nextId>>

\* middleware.py:189-195, 333-335: the scope check has answered
guard_return(p) ==
    /\ InFlight(p, "g_scopes")
    /\ guard.pc = "done"
    /\ LET c == proc[p]
       IN  Return(p, [Idle EXCEPT !.op = "guard", !.sid = c.sid],
                  GuardResult(guard.outcome, c.request, Presented(c),
                              c.result, TRUE, guard.handler_calls), TRUE)
    /\ guard' = GuardIdle
    /\ UNCHANGED <<config, clock, sessions, nextId>>

\* the session ids that requests present: the first one issued, and one
\* that was never issued
Credentials == {1, nextId}

\* the Authorization headers of the requests, as auth_header.split()
AuthHeaders ==
    {<<>>, <<BEARER_TITLE>>} \cup
    {<<scheme, id>> : scheme \in {BEARER_TITLE, BEARER, BASIC},
                      id \in Credentials}

Cookies == {NoCookie} \cup Credentials

\* the scopes that the guarded routes require; <<>> is a route without any
RouteScopes == {<<>>, RenderScopes(<<Qualified(BILLING, <<READ>>)>>)}

\* the scopes that the sessions of the guarded application carry
SessionScopes == {NoScopes, RenderScopes(<<Qualified(BILLING, <<READ>>)>>)}

GuardOperation(p) ==
    \/ create_session(p)
    \/ \E id \in Credentials : validate_session_get(p, id, FALSE, "info")
    \/ validate_session_check(p)
    \/ validate_session_now(p)
    \/ validate_session_touch(p)
    \/ \E id \in Credentials : logout_user(p, id)
    \/ \E path \in Paths, scopes \in RouteScopes,
          parts \in AuthHeaders, cookie \in Cookies :
         guard_request(p, path, scopes, parts, cookie)
    \/ guard_session(p)
    \/ guard_return(p)
    \/ write_sessions(p)

NextGuard ==
    \/ Tick
    \/ \E p \in Procs : GuardOperation(p)
    \/ scope_check_begin
    \/ scope_check_required
    \/ scope_check_call

MaxRequests == 2

\* one caller sends requests to the guarded application
InitGuard ==
    /\ backend \in Backends
    /\ userMax = [u \in {"alice"} |-> 1]
    /\ ttl = TtlConc
    /\ horizon = MaxTimeConc
    /\ callers = {"p1"}
    /\ users = {"alice"}
    /\ grants = SessionScopes
    /\ quantum = 1
    /\ callCap = MaxRequests
    /\ InitStore
    /\ guard = GuardIdle

SpecGuard == InitGuard /\ [][NextGuard]_vars

\* ------------------------------------------------- endpoints.login_user
\* bool(validation_result): None, False and an empty dict are falsy
Truthy(v) == IF v.type = "dict" THEN v.keys # {} ELSE v.truth

\* validation_result.get(key, default)
DictGet(v, key, default) ==
    IF key \in v.keys
    THEN IF key = "username" THEN v.username ELSE v.scopes
    ELSE default

\* endpoints.py:94-96
ValidatedUsername(v, username) ==
    IF v.type = "dict" THEN DictGet(v, "username", username) ELSE username

\* the scopes of login_user taken from the caller whenever the caller gave any
ValidatedScopes_caller_first(v, scopes) ==
    IF scopes # NoScopes THEN scopes
    ELSE IF v.type = "dict" THEN DictGet(v, "scopes", scopes) ELSE scopes

\* endpoints.py:94-99
ValidatedScopes(v, scopes) ==
    IF v.type = "dict" THEN DictGet(v, "scopes", scopes) ELSE scopes

\* login_user that closes the sessions of the user when the login fails
login_user_evicts_on_failure(p, username, scopes, v) ==
    /\ Resting(p)
    /\ LET c == [Idle EXCEPT !.op = "login", !.user = username,
                   !.login = [username |-> username, scopes |-> scopes,
                              validation_result |-> v]]
       IN  IF v.type \in {"unconfigured", "raises"} \/ ~Truthy(v)
           THEN /\ sessions' = StoreDelete(IdsOf(username))
                /\ Return(p, c, LoginError("Credenciales invalidas"), TRUE)
           ELSE /\ LockFree
                /\ nextId <= MaxIds
                /\ sessions' = sessions
                /\ Step(p, [c EXCEPT
                      !.pc = "c_count",
                      !.user = ValidatedUsername(v, username),
                      !.scopes = ValidatedScopes(v, scopes),
                      !.max_sessions =
                          get_user_max_sessions(
                              ValidatedUsername(v, username))])
    /\ UNCHANGED <<config, guard, clock, nextId>>

\* endpoints.py:44-113. v is what the configured validator does with
\* (username, password): "unconfigured" stands for no validator in the
\* environment, "raises" for a validator that raises
login_user(p, username, scopes, v) ==
    /\ Resting(p)
    /\ LET c == [Idle EXCEPT !.op = "login", !.user = username,
                   !.login = [username |-> username, scopes |-> scopes,
                              validation_result |-> v]]
       IN  IF v.type = "unconfigured"
           THEN Return(p, c, LoginError("Validador de usuarios no configurado"),
                       TRUE)
           ELSE IF v.type = "raises"
           THEN Return(p, c, LoginError("Error durante login"), TRUE)
           ELSE IF ~Truthy(v)
           THEN Return(p, c, LoginError("Credenciales invalidas"), TRUE)
           ELSE /\ LockFree
                /\ nextId <= MaxIds
                /\ Step(p, [c EXCEPT
                      !.pc = "c_count",
                      !.user = ValidatedUsername(v, username),
                      !.scopes = ValidatedScopes(v, scopes),
                      !.max_sessions =
                          get_user_max_sessions(
                              ValidatedUsername(v, username))])
    /\ UNCHANGED <<config, guard, clock, sessions, nextId>>

\* the scopes that callers of login_user pass and that validators grant
LoginScopes == SessionScopes \cup {RenderScopes(<<Bare(ADMIN)>>)}

\* the values a validator can hand back, and its two failures
ValidationResults ==
    {Validation(t, FALSE, {}, "", NoScopes) :
        t \in {"none", "unconfigured", "raises"}}
    \cup {Validation("bool", b, {}, "", NoScopes) : b \in BOOLEAN}
    \cup {Validation("str", TRUE, {}, "", NoScopes)}
    \cup {Validation("dict", TRUE, {}, "", NoScopes),
          Validation("dict", TRUE, {"id"}, "", NoScopes)}
    \cup {Validation("dict", TRUE, {"username"}, u, NoScopes) : u \in Users}
    \cup {Validation("dict", TRUE, {"scopes"}, "", sc) : sc \in LoginScopes}
    \cup {Validation("dict", TRUE, {"username", "scopes"}, u, sc) :
            u \in Users, sc \in LoginScopes}

NextLogin ==
    \/ Tick
    \/ \E p \in Procs :
         \/ \E u \in users, sc \in grants, v \in ValidationResults :
              login_user(p, u, sc, v)
         \/ create_session_count(p)
         \/ create_session_loop(p)
         \/ create_session_evict(p)
         \/ create_session_insert(p)
         \/ write_sessions(p)

\* one caller logs in
InitLogin ==
    /\ backend \in Backends
    /\ userMax = [u \in {"alice"} |-> 1]
    /\ ttl = TtlConc
    /\ horizon = MaxTimeConc
    /\ callers = {"p1"}
    /\ users = {"alice"}
    /\ grants = LoginScopes
    /\ quantum = 1
    /\ callCap = MaxRequests
    /\ InitStore
    /\ guard = GuardIdle

SpecLogin == InitLogin /\ [][NextLogin]_vars

\* ================================================================ claims
\* "active" as the session manager decides it (sessions.py:159, 266)
ActiveIds(u) == get_active_sessions(u, clock)

CreateReturned == ret.op = "create" /\ ret.result.kind = "session"

ValidateReturned == ret.op \in {"validate", "info"}

\* the new record of the create that has just returned is in the store
Inserted == CreateReturned /\ ret.sid \in DOMAIN sessions

\* the records the principal held when the create that has just returned
\* with no other call interleaved was issued: those left and those evicted
PreRecords ==
    {[id |-> i, last_activity |-> sessions[i].last_activity] :
        i \in IdsOf(ret.user) \ {ret.sid}} \cup ret.evicted

\* none of them has reached its deadline
NothingExpiring == \A r \in PreRecords : clock < r.last_activity + ttl

\* every evicted record had the smallest last_activity of the principal
EvictedOldest ==
    \A e \in ret.evicted : \A r \in PreRecords :
        e.last_activity <= r.last_activity

\* C1: after a create_session(u) that returns with no other call interleaved,
\* the number of sessions of u with now <= last_activity + ttl is at most
\* get_user_max_sessions(u).
C1_QuotaAfterCreate ==
    CreateReturned =>
        Cardinality(ActiveIds(ret.user)) <= ret.max_sessions

C3_AlwaysAdmits ==
    ret.op = "create" =>
        /\ ret.result.kind = "session"
        /\ ret.sid \in DOMAIN sessions
        /\ ~IsExpired(sessions[ret.sid].last_activity, clock)
        /\ \A e \in ret.evicted : e.last_activity <= clock

\* C4: validate_session(id, renew=True) returns None when
\* update_last_activity reports that no record was updated.
C4_VanishedIsNotFound ==
    (ValidateReturned /\ ret.renew /\ ~ret.updated)
        => ret.result = NotFound

\* C5: a stored session that is expired stays expired: no step renews it.
C5_ExpiryPermanent ==
    [][\A i \in DOMAIN sessions :
          (IsExpired(sessions[i].last_activity, clock)
             /\ i \in DOMAIN sessions')
          => IsExpired(sessions'[i].last_activity, clock')]_vars

\* caller p takes a step of a validate_session call
ValidateStep(p) ==
    \/ proc[p].pc \in {"v_check", "v_now", "v_touch"} /\ proc'[p] # proc[p]
    \/ /\ proc[p].pc = "w_dump" /\ proc'[p] # proc[p]
       /\ proc[p].op \in {"validate", "info"}
    \/ /\ proc[p].pc = "idle" /\ calls' = calls + 1
       /\ \/ proc'[p].pc = "v_check"
          \/ proc'[p].pc = "idle" /\ ret'.op \in {"validate", "info"}

\* the renew argument of the call that step belongs to
StepRenews(p) ==
    IF proc[p].pc # "idle" THEN proc[p].renew
    ELSE IF proc'[p].pc # "idle" THEN proc'[p].renew
    ELSE ret'.renew

\* C6: no step of validate_session(id, renew=False), called directly or by
\* get_session_info, changes the store.
C6_PeekChangesNothing ==
    [][\A p \in Procs :
          (ValidateStep(p) /\ ~StepRenews(p)) => sessions' = sessions]_vars

\* a peek has returned a session
C6_Witness ==
    /\ ret.op = "info" /\ ~ret.renew /\ ret.result.kind = "session"
    /\ ret.sid \in DOMAIN sessions

\* the step in which cleanup_expired_sessions reads and rewrites the store
CleanupStep ==
    /\ calls' = calls + 1
    /\ \/ ret'.op = "cleanup"
       \/ \E p \in Procs : proc[p].pc = "idle" /\ proc'[p].op = "cleanup"

\* C7: when the expiry test of validate_session runs past
\* last_activity + ttl, the call returns None and the store is unchanged; no
\* step of validate_session removes a record; cleanup_expired_sessions
\* removes every expired record.
C7_ExpiredStaysUntilCleanup ==
    [][/\ \A p \in Procs :
            /\ (/\ proc[p].pc = "v_check" /\ proc'[p] # proc[p]
                /\ IsExpired(proc[p].session.last_activity, clock))
               => /\ ret'.op \in {"validate", "info"}
                  /\ ret'.result = NotFound
                  /\ sessions' = sessions
            /\ ValidateStep(p) => DOMAIN sessions' = DOMAIN sessions
       /\ CleanupStep
            => \A i \in DOMAIN sessions :
                  i \in DOMAIN sessions'
                     <=> ~IsExpired(sessions[i].last_activity, clock)]_vars

\* validate_session(renew=True) has returned None for a record that is
\* expired and still stored
C7_Witness ==
    /\ ret.op = "validate" /\ ret.renew /\ ret.result = NotFound
    /\ ret.sid \in DOMAIN sessions
    /\ IsExpired(sessions[ret.sid].last_activity, clock)
\* ---------------------------------------------- the scope check, as specified
Range(f) == {f[i] : i \in DOMAIN f}

RECURSIVE Glob(_, _)
\* '*' in a required subsystem stands for any run of characters
Glob(pat, s) ==
    IF pat = <<>> THEN s = <<>>
    ELSE IF Head(pat) = "*"
    THEN Glob(Tail(pat), s) \/ (s # <<>> /\ Glob(pat, Tail(s)))
    ELSE s # <<>> /\ Head(pat) = Head(s) /\ Glob(Tail(pat), Tail(s))

\* granted token G holds every permission of required token R
Holds(R, G) ==
    /\ ~G.bare
    /\ R.name = G.name \/ (Has(R.name, "*") /\ Glob(R.name, G.name))
    /\ ADMIN \in Range(G.perms) \/ Range(R.perms) \subseteq Range(G.perms)

Authorized == guard.pc = "done" /\ guard.outcome = "handler"

\* C8: a required 'subsys:p1,p2,...' is authorized iff some granted
\* 'gsubsys:g1,g2,...' has a matching subsystem and holds admin or every p.
C8_TokenAuthorized ==
    (guard.pc = "done" /\ Len(guard.req_tokens) = 1
                       /\ ~guard.req_tokens[1].bare)
        => (Authorized <=>
              \E k \in DOMAIN guard.granted_tokens :
                  Holds(guard.req_tokens[1], guard.granted_tokens[k]))

\* C9: when the check authorizes, every required 'subsys:perms' token is held
\* by a single granted token of a matching subsystem.
C9_NeverOverGrants ==
    Authorized =>
        \A i \in DOMAIN guard.req_tokens :
            ~guard.req_tokens[i].bare =>
                \E k \in DOMAIN guard.granted_tokens :
                    Holds(guard.req_tokens[i], guard.granted_tokens[k])

C11_SubsystemGlob ==
    (/\ guard.pc = "done"
     /\ Len(guard.req_tokens) = 1 /\ Len(guard.granted_tokens) = 1
     /\ ~guard.req_tokens[1].bare /\ ~guard.granted_tokens[1].bare
     /\ Len(guard.req_tokens[1].perms) = 1
     /\ guard.granted_tokens[1].perms = guard.req_tokens[1].perms)
        => (Authorized <=>
              IF Has(guard.req_tokens[1].name, "*")
              THEN Glob(guard.req_tokens[1].name, guard.granted_tokens[1].name)
              ELSE guard.req_tokens[1].name = guard.granted_tokens[1].name)

\* C12: a required bare token is authorized iff a granted bare token is the
\* same string; a required 'subsys:perms' token is not authorized when every
\* granted token is bare.
C12_BareQualifiedApart ==
    (guard.pc = "done" /\ Len(guard.req_tokens) = 1) =>
        IF guard.req_tokens[1].bare
        THEN Authorized <=>
               \E k \in DOMAIN guard.granted_tokens :
                   /\ guard.granted_tokens[k].bare
                   /\ guard.granted_tokens[k].name = guard.req_tokens[1].name
        ELSE Authorized =>
               \E k \in DOMAIN guard.granted_tokens :
                   ~guard.granted_tokens[k].bare

\* C16: a create_session whose storage insert failed returns an error, not a
\* session.
C16_StorageFailurePropagates ==
    (ret.op = "create" /\ ~ret.updated) => ret.result.kind = "error"

\* no caller is inside an operation
AllIdle == \A p \in Procs : proc[p].pc = "idle"

\* C17: for a maximum of at least 1, a principal never has more than
\* maximum + 1 active sessions, and once a validate_session or a
\* cleanup_expired_sessions call has returned with no call in progress it has
\* at most the maximum.
C17_RaceExcessRestored ==
    \A u \in users :
        get_user_max_sessions(u) >= 1 =>
            /\ Cardinality(ActiveIds(u)) <= get_user_max_sessions(u) + 1
            /\ (AllIdle /\ ret.op \in {"validate", "cleanup"})
                  => Cardinality(ActiveIds(u)) <= get_user_max_sessions(u)

\* C19: every session view returned by create_session, validate_session and
\* get_active_sessions has expires_at = last_activity + ttl, where the
\* last_activity of a new session is its created_at.
C19_ExpiresAtFromLastActivity ==
    /\ CreateReturned =>
          ret.result.expires_at = ret.result.created_at + ttl
    /\ (ValidateReturned /\ ret.result.kind = "session") =>
          ret.result.expires_at = ret.result.last_activity + ttl
    /\ ret.op = "list" =>
          \A v \in ret.result.sessions :
              v.expires_at = v.last_activity + ttl

\* a renewing validate_session has returned a view whose last_activity is
\* later than the one it read
C19_Witness ==
    /\ ret.op = "validate" /\ ret.renew /\ ret.result.kind = "session"
    /\ ret.result.last_activity > ret.result.created_at
    /\ ret.result.expires_at = clock + ttl

\* a guarded request was answered
GuardReturned == ret.op = "guard" /\ ret.result.request.path \in Guards

\* C13: a guarded handler runs only with the session that validate_session
\* returned for the token the request presented, and only after every scope
\* that the route requires was matched by that session's scopes; every
\* other guarded request is answered 401 or 403 and the handler does not run.
C13_HandlerOnlyWithSession ==
    GuardReturned =>
        LET r == ret.result
        IN  /\ r.kind \in {"handler", "401", "403"}
            /\ r.handler_calls = IF r.kind = "handler" THEN 1 ELSE 0
            /\ r.kind = "handler" =>
                 /\ r.validated
                 /\ r.token.kind = "token"
                 /\ r.session.kind = "session"
                 /\ r.session.session_id = r.token.id
                 /\ \A i \in DOMAIN ParseScopes(r.request.scopes) :
                      Matched(ParseScopes(r.request.scopes)[i],
                              ParseScopes(r.session.scopes))
            /\ r.kind = "403" =>
                 /\ r.session.kind = "session"
                 /\ \E i \in DOMAIN ParseScopes(r.request.scopes) :
                      ~Matched(ParseScopes(r.request.scopes)[i],
                               ParseScopes(r.session.scopes))
            /\ r.kind = "401" => r.session = NotFound

\* a handler ran behind a route that requires a scope
C13_Witness ==
    /\ GuardReturned
    /\ ret.result.kind = "handler"
    /\ ret.result.request.scopes # <<>>
    /\ ret.result.session.scopes # NoScopes

\* the header carries a bearer token
BearerHeader(parts) == Len(parts) = 2 /\ Lower(parts[1]) = BEARER

\* C14 (as stated): on every path the token is the bearer token of the
\* header when the header carries one, the cookie otherwise, and
\* validate_session is not called when neither gives a token.
C14_HeaderThenCookie ==
    ret.op = "guard" =>
        LET r == ret.result
            parts == r.request.auth_header
            cookie == r.request.cookie
        IN  IF BearerHeader(parts)
            THEN r.validated /\ r.token.kind = "token"
                 /\ r.token.id = parts[2]
            ELSE IF cookie # NoCookie
            THEN r.validated /\ r.token.kind = "token"
                 /\ r.token.id = cookie
            ELSE ~r.validated /\ r.kind \in {"401", "none"}

\* C14 (amended): the bearer token of the header is presented when the
\* header carries one. require_auth and SessionDependency answer 401 to a
\* header that is present and is no bearer header without reading the
\* cookie; they read the cookie only when the header is absent or empty.
\* get_session_from_request reads the cookie whenever the header carries no
\* bearer token. No path calls validate_session without a token.
C14_HeaderThenCookieUnlessMalformed ==
    ret.op = "guard" =>
        LET r == ret.result
            parts == r.request.auth_header
            cookie == r.request.cookie
        IN  IF BearerHeader(parts)
            THEN r.validated /\ r.token.kind = "token"
                 /\ r.token.id = parts[2]
            ELSE IF parts # <<>> /\ r.request.path \in Guards
            THEN ~r.validated /\ r.kind = "401"
            ELSE IF cookie # NoCookie
            THEN r.validated /\ r.token.kind = "token"
                 /\ r.token.id = cookie
            ELSE ~r.validated /\ r.kind \in {"401", "none"}

\* a guard refused a malformed header that came with the cookie of a
\* stored session
C14_Witness ==
    /\ GuardReturned
    /\ ret.result.request.auth_header # <<>>
    /\ ~BearerHeader(ret.result.request.auth_header)
    /\ ret.result.request.cookie \in DOMAIN sessions
    /\ ret.result.kind = "401"

\* C15: a session id whose record is stored but expired gets the answer
\* that a session id that was never issued gets, from a guarded request,
\* from the session information endpoint and from logout.
C15_ExpiredLikeUnknown ==
    /\ (/\ ret.op = "guard"
        /\ ret.result.token.kind = "token"
        /\ ret.result.token.id \in DOMAIN sessions
        /\ IsExpired(sessions[ret.result.token.id].last_activity, clock))
       => ret.result.kind \in {"401", "none"}
    /\ (/\ ret.op = "info"
        /\ ret.sid \in DOMAIN sessions
        /\ IsExpired(sessions[ret.sid].last_activity, clock))
       => ret.result = NotFound
    /\ (/\ ret.op = "logout"
        /\ \E e \in ret.evicted : IsExpired(e.last_activity, clock))
       => ret.result = LogoutResponse(FALSE)

\* C18: a write of the store is atomic: while a writer is between the
\* beginning and the end of its write, a get_session by another caller
\* finds, for every session id, what it found before the write or what it
\* finds after it.
C18_WritesAtomic ==
    \A p \in Procs :
        (proc[p].pc = "w_dump" /\ callers # {p}) =>
            \A id \in KnownIds :
                \/ get_session(id).found = (id \in DOMAIN proc[p].before)
                \/ get_session(id).found = (id \in DOMAIN sessions)

\* validate_session(id, renew=False) run in the current state
Peek(id) ==
    LET s == get_session(id)
    IN  IF ~s.found THEN NotFound
        ELSE IF IsExpired(s.last_activity, clock) THEN NotFound
        ELSE SessionView(s, s.last_activity)

\* p's validate_session(id, renew=True) returns a session in this step
RenewReturns(p) ==
    /\ proc[p].op = "validate" /\ proc[p].renew
    /\ proc[p].pc \in {"v_touch", "w_dump"}
    /\ ret'.op = "validate" /\ ret'.caller = p
    /\ ret'.result.kind = "session"

\* C20: when validate_session(id, renew=True) returns, a
\* validate_session(id, renew=False) that follows with nothing in between
\* returns an expires_at that is no earlier than the expires_at the session
\* had before the renewal and equals the expires_at that the renewing call
\* returned.
C20_RenewThenPeek ==
    [][\A p \in Procs :
          (RenewReturns(p) /\ Peek(ret.sid)'.kind = "session") =>
              /\ Peek(ret.sid)'.expires_at >=
                     proc[p].session.last_activity + ttl
              /\ Peek(ret.sid)'.expires_at = ret'.result.expires_at]_vars

\* C21: delete_session of a session id that is not stored returns False
\* and leaves the store as it was; delete_session returns True exactly when
\* it removed a record, and when it returns the id is not stored, so that a
\* second delete_session of the same id returns False and changes nothing.
C21_DeleteUnknownIsFalse ==
    [][\A p \in Procs :
          /\ (/\ proc[p].pc = "idle" /\ calls' = calls + 1
              /\ ret'.op = "delete" /\ ret'.caller = p
              /\ ret'.sid \notin DOMAIN sessions)
             => /\ ret'.result = [kind |-> "bool", value |-> FALSE]
                /\ sessions' = sessions
          /\ (ret'.op = "delete" /\ ret'.caller = p)
             => /\ ret'.result.kind = "bool"
                /\ ret'.result.value = (ret'.evicted # {})
                /\ ret'.sid \notin DOMAIN sessions']_vars

\* delete_session has returned False for an id that was issued and is no
\* longer stored
C21_Witness ==
    /\ ret.op = "delete"
    /\ ret.sid < nextId
    /\ backend = "json"
    /\ ret.result = [kind |-> "bool", value |-> FALSE]

\* C22: cleanup_expired_sessions removes the sessions of every principal
\* with now > last_activity + ttl and no other session, leaves the sessions
\* that stay as they were (one that was renewed in time among them), and
\* returns the number of records it removed.
C22_CleanupExactlyExpired ==
    [][/\ CleanupStep =>
            /\ DOMAIN sessions' =
                 {i \in DOMAIN sessions :
                     ~(clock > sessions[i].last_activity + ttl)}
            /\ \A i \in DOMAIN sessions' : sessions'[i] = sessions[i]
       /\ ret'.op = "cleanup" =>
            /\ ret'.result.value = Cardinality(ret'.evicted)
            /\ \A e \in ret'.evicted :
                 /\ e.id \notin DOMAIN sessions'
                 /\ clock > e.last_activity + ttl]_vars

\* a cleanup has removed a session and left another one
C22_Witness ==
    /\ ret.op = "cleanup"
    /\ ret.result.value >= 1
    /\ sessions # <<>>

\* the sessions of u that validate_session accepts at time now
Accepted(u, now) ==
    {i \in DOMAIN read_sessions :
        /\ read_sessions[i].username = u
        /\ now <= read_sessions[i].last_activity + ttl}

\* C23: the operations that decide whether a session is active agree with
\* validate_session, also at now = last_activity + ttl: create_session
\* counts exactly the sessions of the principal with
\* now <= last_activity + ttl, the session it takes as the oldest is one of
\* them, and cleanup_expired_sessions removes none of them.
C23_OneActivePredicate ==
    [][/\ \A p \in Procs :
            /\ (proc[p].pc = "c_count" /\ proc'[p].pc = "c_loop")
               => proc'[p].active_sessions =
                      Cardinality(Accepted(proc[p].user, clock))
            /\ (proc[p].pc = "c_loop" /\ proc'[p].pc = "c_evict")
               => proc'[p].oldest \in Accepted(proc[p].user, clock)
            /\ (/\ proc[p].pc = "c_loop" /\ proc'[p].pc = "c_insert"
                /\ proc[p].active_sessions >= proc[p].max_sessions)
               => Accepted(proc[p].user, clock) = {}
       /\ CleanupStep =>
            \A u \in users : Accepted(u, clock) \subseteq DOMAIN sessions']_vars

\* C24: every stored session has last_activity >= created_at, and no step
\* changes the username, the scopes or the created_at of a session that
\* stays stored.
C24_OnlyLastActivityChanges ==
    [][/\ \A i \in DOMAIN sessions' :
            sessions'[i].last_activity >= sessions'[i].created_at
       /\ \A i \in DOMAIN sessions \cap DOMAIN sessions' :
            /\ sessions'[i].username = sessions[i].username
            /\ sessions'[i].scopes = sessions[i].scopes
            /\ sessions'[i].created_at = sessions[i].created_at]_vars

\* a renewal has moved the last_activity of a stored session
C24_Witness ==
    /\ ret.op = "validate" /\ ret.renew /\ ret.updated
    /\ ret.sid \in DOMAIN sessions
    /\ sessions[ret.sid].last_activity > sessions[ret.sid].created_at

\* the sessions of the content st that are active now, those of u only when
\* a username is given
ActiveIn(st, u) ==
    {i \in DOMAIN st :
        /\ u # NoUser => st[i].username = u
        /\ clock <= st[i].last_activity + ttl}

\* the store content, and the content before the write that is under way
Contents ==
    {sessions} \cup {proc[p].before : p \in {q \in Procs : proc[q].pc = "w_dump"}}

\* C25: get_active_sessions(username) returns exactly the stored sessions
\* with now <= last_activity + ttl, those of the username when one is
\* given, each with the last_activity that is stored and
\* expires_at = last_activity + ttl.
C25_ListExactlyActive ==
    ret.op = "list" =>
        \E st \in Contents :
            /\ {v.session_id : v \in ret.result.sessions} =
                   ActiveIn(st, ret.user)
            /\ \A v \in ret.result.sessions :
                 /\ v.last_activity = st[v.session_id].last_activity
                 /\ v.username = st[v.session_id].username
                 /\ v.expires_at = v.last_activity + ttl

\* C26: on the same required scopes and the same session scopes,
\* SessionDependency returns the session exactly when the require_auth
\* decorator calls the handler.
C26_GuardsDecideAlike ==
    guard.dependency # "none" =>
        (guard.dependency = "session" <=> guard.outcome = "handler")

\* both guards have refused a request that requires two scopes of a
\* session that carries scopes
C26_Witness ==
    /\ guard.dependency = "403"
    /\ guard.outcome = "403"
    /\ Len(guard.req_tokens) = 2
    /\ guard.granted_tokens # <<>>

\* C27: the eviction loop of create_session terminates for every configured
\* maximum, zero and negative ones included, and every store state, also
\* while other callers add or remove sessions of the principal: a caller in
\* the loop leaves it; a pass that finds no active session leaves the loop,
\* and every other pass lowers the local counter by one.
InLoop(p) ==
    /\ proc[p].op = "create"
    /\ \/ proc[p].pc \in {"c_loop", "c_evict"}
       \/ proc[p].pc = "w_dump" /\ proc[p].after = "c_loop"

LoopPass(p) ==
    /\ proc[p].pc = "c_loop"
    /\ proc'[p] # proc[p]

C27_EvictionLoopTerminates ==
    /\ \A p \in Procs : InLoop(p) ~> ~InLoop(p)
    /\ [][\A p \in Procs :
            /\ (LoopPass(p) /\ StoreActiveIds(proc[p].user, clock) = {})
                  => ~InLoop(p)'
            /\ (proc[p].pc = "c_evict" /\ proc'[p] # proc[p])
                  => /\ proc'[p].active_sessions
                          = proc[p].active_sessions - 1
                     /\ proc'[p].max_sessions = proc[p].max_sessions]_vars

\* a caller whose maximum is negative has left the loop after an eviction
\* while the other caller is inside an operation
C27_Witness ==
    \E p \in Procs, q \in Procs :
        /\ p # q
        /\ proc[p].op = "create"
        /\ proc[p].pc = "c_insert"
        /\ proc[p].max_sessions < 0
        /\ proc[p].evicted # {}
        /\ proc[q].pc # "idle"

\* C28: the store's create_session called with a session_id that is already
\* stored fails (returns False) and leaves the stored record as it was: it
\* never overwrites a stored session.
StoreCreateResult(p) ==
    IF ret'.op = "store_create" THEN ret'.result ELSE proc'[p].result

C28_CreateNeverOverwrites ==
    [][\A p \in Procs :
         (/\ proc[p].pc = "idle"
          /\ calls' = calls + 1
          /\ \/ ret'.op = "store_create"
             \/ proc'[p].op = "store_create"
          /\ (IF ret'.op = "store_create" THEN ret'.sid ELSE proc'[p].sid)
                 \in DOMAIN sessions)
         => /\ StoreCreateResult(p) = [kind |-> "bool", value |-> FALSE]
            /\ sessions' = sessions]_vars

\* C29: delete_user_sessions(u) removes every session of u, active or
\* expired, and no session of another principal, and returns the number
\* removed; the removed ids are not stored when it returns, an id that was
\* handed out and is not stored is never stored again, and a validate_session
\* call for such an id returns not-found.
DeleteUserCall(p, u) ==
    /\ proc[p].pc = "idle"
    /\ calls' = calls + 1
    /\ \/ ret'.op = "delete_user" /\ ret'.user = u /\ ret'.caller = p
       \/ /\ proc'[p].op = "delete_user"
          /\ proc'[p].user = u
          /\ proc'[p].pc = "w_dump"

\* p calls validate_session(i)
ValidateCall(p, i) ==
    /\ proc[p].pc = "idle"
    /\ calls' = calls + 1
    /\ \/ ret'.op = "validate" /\ ret'.sid = i /\ ret'.caller = p
       \/ proc'[p].op = "validate" /\ proc'[p].sid = i

DeleteUserResult(p) ==
    IF ret'.op = "delete_user" THEN ret'.result ELSE proc'[p].result

C29_DeleteUserRemovesExactly ==
    [][/\ \A p \in Procs, u \in Users :
            DeleteUserCall(p, u)
            => /\ DOMAIN sessions' = DOMAIN sessions \ IdsOf(u)
               /\ \A i \in DOMAIN sessions' : sessions'[i] = sessions[i]
               /\ DeleteUserResult(p) =
                     [kind |-> "int", value |-> Cardinality(IdsOf(u))]
       /\ ret'.op = "delete_user"
            => \A r \in ret'.evicted : r.id \notin DOMAIN sessions'
       /\ \A i \in Ids :
            (i < nextId /\ i \notin DOMAIN sessions)
            => /\ i \notin DOMAIN sessions'
               /\ \A p \in Procs :
                    ValidateCall(p, i)
                    => ret'.op = "validate" /\ ret'.result = NotFound]_vars

\* delete_user_sessions has returned after removing an expired session of
\* one principal while the other principal has a session in the store
C29_Witness ==
    /\ ret.op = "delete_user"
    /\ ret.result = [kind |-> "int", value |-> 1]
    /\ \E r \in ret.evicted : IsExpired(r.last_activity, clock)
    /\ \E i \in DOMAIN sessions : sessions[i].username # ret.user

\* C30: in login_user, when the validator returns a record with a 'scopes'
\* field, the scopes of the created session are that field whatever scopes
\* the caller passed; the scopes of the caller are used only when the
\* validator returns a bare truthy value or a record without 'scopes'.
RecordWithScopes(v) == v.type = "dict" /\ "scopes" \in v.keys

C30_ValidatorScopesWin ==
    (ret.op = "login" /\ ret.result.success)
    => LET v == ret.login.validation_result
           session == ret.result.session
           expected == IF RecordWithScopes(v) THEN v.scopes
                       ELSE ret.login.scopes
       IN  /\ Truthy(v)
           /\ session.scopes = expected
           /\ session.session_id \in DOMAIN sessions
                => sessions[session.session_id].scopes = expected

\* a login has created a session whose scopes are the validator's and differ
\* from those the caller passed
C30_Witness ==
    /\ ret.op = "login"
    /\ ret.result.success
    /\ RecordWithScopes(ret.login.validation_result)
    /\ ret.login.scopes # NoScopes
    /\ ret.login.validation_result.scopes # NoScopes
    /\ ret.login.validation_result.scopes # ret.login.scopes
    /\ ret.result.session.session_id \in DOMAIN sessions
    /\ sessions[ret.result.session.session_id].scopes
          = ret.login.validation_result.scopes

\* C31: get_oldest_session(u, ttl) returns the active session of u with the
\* smallest last_activity, or None when u has no active session, for any
\* number of active sessions of u, and without raising.
OldestCall(p) ==
    /\ proc[p].pc = "c_loop"
    /\ proc[p].active_sessions >= proc[p].max_sessions
    /\ proc'[p] # proc[p]

C31_OldestIsMinimalActive ==
    [][\A p \in Procs :
         OldestCall(p)
         => LET act == StoreActiveIds(proc[p].user, clock)
            IN  IF act = {}
                THEN proc'[p].pc = "c_insert"
                ELSE /\ proc'[p].pc = "c_evict"
                     /\ proc'[p].oldest \in act
                     /\ \A k \in act :
                           read_sessions[proc'[p].oldest].last_activity
                             <= read_sessions[k].last_activity]_vars

\* C32: the store's delete-oldest operation for principal u deletes exactly
\* one record, the active session of u with the smallest last_activity, and
\* never an expired one.
DeleteOldestCall(p, u) ==
    /\ proc[p].pc = "idle"
    /\ calls' = calls + 1
    /\ \/ /\ ret'.op = "store_delete_oldest"
          /\ ret'.user = u
          /\ ret'.caller = p
       \/ proc'[p].op = "store_delete_oldest" /\ proc'[p].user = u

C32_DeleteOldestActive ==
    [][\A p \in Procs, u \in Users :
         (DeleteOldestCall(p, u) /\ OldestIds_active(u) # {})
         => \E i \in OldestIds_active(u) :
              /\ DOMAIN sessions' = DOMAIN sessions \ {i}
              /\ \A k \in DOMAIN sessions' : sessions'[k] = sessions[k]]_vars

\* C33: under concurrent validate_session(id, renew=True) calls on one
\* session the stored last_activity never decreases: every renewal leaves
\* last_activity at least as large as it was before.
C33_RenewalNeverDecreases ==
    [][\A i \in DOMAIN sessions \cap DOMAIN sessions' :
         sessions'[i].last_activity >= sessions[i].last_activity]_vars

\* C34: if principal u holds at most max active sessions (max >= 1) and k
\* create_session(u) calls then run, once all k calls have returned u holds
\* at most max + k - 1 active sessions. Stated for the create that has just
\* returned with no other call interleaved, a batch of k = 1.
C34_CreatesExceedByLessThanK ==
    (/\ CreateReturned
     /\ ret.max_sessions >= 1
     /\ Cardinality(PreRecords) <= ret.max_sessions)
    => Cardinality(ActiveIds(ret.user)) <= ret.max_sessions + 1 - 1

\* C35: deletion is permanent. When delete_session(id) returns True the id
\* is not stored; an id that was handed out and is not stored stays out of
\* the store, also when a renewal that raced with the delete writes its
\* last_activity afterwards; and a validate_session(id) call that starts
\* while the id is not stored returns not-found.
DeleteReturnsTrue ==
    /\ ret'.op = "delete"
    /\ ret'.result = [kind |-> "bool", value |-> TRUE]

LateRenewal(p) ==
    /\ proc[p].pc = "v_touch"
    /\ proc[p].sid \notin DOMAIN sessions
    /\ proc'[p] # proc[p]

C35_DeletionPermanent ==
    [][/\ DeleteReturnsTrue => ret'.sid \notin DOMAIN sessions'
       /\ \A p \in Procs : LateRenewal(p) => sessions' = sessions
       /\ \A i \in Ids :
            (i < nextId /\ i \notin DOMAIN sessions)
            => /\ i \notin DOMAIN sessions'
               /\ \A p \in Procs :
                    (/\ proc[p].pc = "idle"
                     /\ proc'[p].op \in {"none", "validate"}
                     /\ ret'.op = "validate"
                     /\ ret'.caller = p
                     /\ ret'.sid = i
                     /\ calls' = calls + 1)
                    => ret'.result = NotFound]_vars

\* delete_session has returned True while the other caller is about to write
\* the renewal of the same session
C35_Witness ==
    /\ ret.op = "delete"
    /\ ret.result = [kind |-> "bool", value |-> TRUE]
    /\ \E p \in Procs :
         /\ proc[p].pc = "v_touch"
         /\ proc[p].sid = ret.sid
         /\ p # ret.caller

\* C36: create_session(u) never deletes or modifies a session of a principal
\* other than u, and never deletes an expired session: the only records it
\* removes are active sessions of u.
CreateStep(p) ==
    /\ proc'[p] # proc[p]
    /\ \/ proc[p].op = "create" /\ proc[p].pc # "idle"
       \/ proc[p].pc = "idle" /\ proc'[p].op = "create"

LoginRefused ==
    /\ ret'.op = "login"
    /\ ~ret'.result.success
    /\ \/ ret'.login.validation_result.type = "unconfigured"
       \/ /\ ret'.login.validation_result.type # "raises"
          /\ ~Truthy(ret'.login.validation_result)

C37_FailedLoginChangesNothing ==
    [][LoginRefused
         => /\ sessions' = sessions
            /\ nextId' = nextId
            /\ proc[ret'.caller].pc = "idle"
            /\ calls' = calls + 1]_vars

\* a login of a principal that holds an active session has been refused
C37_Witness ==
    /\ ret.op = "login"
    /\ ~ret.result.success
    /\ ~Truthy(ret.login.validation_result)
    /\ \E i \in ActiveIds(ret.login.username) :
         sessions[i].username = ret.login.username

\* C38: in the request guard the session is validated with renew=True before
\* the scope check runs: when the scope check starts the store holds the
\* last_activity that this request's renewal wrote, so a request answered
\* 403, which only the scope check produces, has renewed the session; the
\* store changes during a request only in that renewal, which hands a
\* session to the guard, and a request answered 401 carries no session, so
\* it has changed none.
ScopeCheckStarts(p) ==
    /\ proc[p].pc = "g_session"
    /\ proc'[p].pc = "g_scopes"

GuardAnswers(kind) ==
    /\ ret'.op = "guard"
    /\ ret'.result.kind = kind

C38_RenewedBeforeScopeCheck ==
    [][\A p \in Procs :
         /\ ScopeCheckStarts(p)
              => /\ proc[p].renew
                 /\ proc[p].sid \in DOMAIN sessions
                 /\ sessions[proc[p].sid].last_activity = proc[p].now
                 /\ proc[p].result.last_activity = proc[p].now
         /\ (GuardAnswers("403") /\ ret'.caller = p)
              => proc[p].pc = "g_scopes"
         /\ (proc[p].request # NoRequest /\ sessions' # sessions)
              => /\ proc[p].pc = "v_touch"
                 /\ proc'[p].result # NotFound
         /\ (GuardAnswers("401") /\ ret'.caller = p)
              => /\ ret'.result.session = NotFound
                 /\ proc[p].pc \in {"idle", "g_session"}
                 /\ proc[p].pc = "g_session" => proc[p].result = NotFound
                 /\ sessions' = sessions]_vars

\* a request has been answered 403 and the session it presented has a
\* last_activity later than its creation
C38_Witness ==
    /\ ret.op = "guard"
    /\ ret.result.kind = "403"
    /\ ret.sid \in DOMAIN sessions
    /\ sessions[ret.sid].last_activity > sessions[ret.sid].created_at
    /\ sessions[ret.sid].last_activity = ret.result.session.last_activity

\* C39: when the configured maximum of a principal is 0 or negative, a
\* create_session call with no other call interleaved deletes every active
\* session of the principal and still stores the new one, which is then the
\* only active session of the principal.
C39_NonPositiveMaxLeavesOne ==
    (CreateReturned /\ ret.max_sessions <= 0)
    => /\ ret.sid \in DOMAIN sessions
       /\ ActiveIds(ret.user) = {ret.sid}

\* C40: the writes issued through one JSONSessionStorage instance are
\* serialized by its lock and none is lost: every change of the stored
\* sessions is the whole effect of one create_session, update_last_activity,
\* delete_session, delete_user_sessions or cleanup_expired_sessions call on
\* the content that the previous writer left, made while no other writer is
\* between its read and the end of its write.
Kept(D) == \A i \in D : sessions'[i] = sessions[i]

\* the stored sessions change by the removal of exactly the ids in D
Removes(D) ==
    /\ D # {}
    /\ D \subseteq DOMAIN sessions
    /\ DOMAIN sessions' = DOMAIN sessions \ D
    /\ Kept(DOMAIN sessions')

\* the effect of the store call that p is making
WriteEffect(p) ==
    CASE proc[p].pc = "c_insert" ->
           /\ nextId \notin DOMAIN sessions
           /\ DOMAIN sessions' = DOMAIN sessions \cup {nextId}
           /\ Kept(DOMAIN sessions)
           /\ sessions'[nextId].username = proc[p].user
      [] proc[p].pc = "c_evict" -> Removes({proc[p].oldest})
      [] proc[p].pc = "v_touch" ->
           /\ DOMAIN sessions' = DOMAIN sessions
           /\ Kept(DOMAIN sessions \ {proc[p].sid})
           /\ sessions' =
                 [sessions EXCEPT ![proc[p].sid].last_activity = proc[p].now]
      [] proc'[p].op = "delete" -> Removes({proc'[p].sid})
      [] proc'[p].op = "delete_user" ->
           Removes({i \in DOMAIN sessions :
                      sessions[i].username = proc'[p].user})
      [] proc'[p].op = "cleanup" ->
           Removes({i \in DOMAIN sessions :
                      clock - sessions[i].last_activity > ttl})
      [] OTHER -> FALSE

C40_JsonWritesSerialized ==
    [][(backend = "json" /\ sessions' # sessions)
         => \E p \in Procs :
              /\ proc'[p] # proc[p]
              /\ \A q \in Procs : proc[q].pc # "w_dump"
              /\ proc'[p].pc = "w_dump"
              /\ \A q \in Procs \ {p} : proc'[q] = proc[q]
              /\ WriteEffect(p)]_vars

\* on the JSON store one caller is inside its write while the other caller
\* has a write of its own pending
C40_Witness ==
    /\ backend = "json"
    /\ \E p \in Procs, q \in Procs :
         /\ proc[p].pc = "w_dump"
         /\ proc[q].pc \in {"c_insert", "c_evict", "v_touch"}
         /\ sessions # <<>>

====
